---------------------------- MODULE Spec2Model ----------------------------
(***************************************************************************)
(* Model of the two analysis scripts of vicseksim-rs:                      *)
(*   src/plots/visualize_birds_sphere.py  (load, extract_trajectories,     *)
(*       create_animated_visualization, create_trajectory_analysis, main)  *)
(*   src/plots/simple_example.py          (load_data, plot_frame, main)    *)
(*                                                                         *)
(* The numeric code runs on IEEE-754 binary64 (numpy float64).  TLC's      *)
(* integers are 32 bits wide, so a binary64 value is kept as a sign, a     *)
(* 53-bit significand held in 15-bit limbs, and a binary exponent; every   *)
(* arithmetic operation rounds exactly as the hardware does.               *)
(***************************************************************************)
EXTENDS Integers, Sequences, FiniteSets, TLC

(***************************************************************************)
(* Natural numbers of any size: little-endian sequences of limbs, without  *)
(* leading (most significant) zero limbs; <<>> is 0.                       *)
(***************************************************************************)
LimbBits == 15 + 0
LimbBase == 2^LimbBits

RECURSIVE BNorm(_)
BNorm(a) ==
    IF a = <<>> THEN <<>>
    ELSE IF a[Len(a)] = 0 THEN BNorm(SubSeq(a, 1, Len(a) - 1))
    ELSE a

RECURSIVE BFromInt(_)
BFromInt(n) ==
    IF n = 0 THEN <<>> ELSE <<n % LimbBase>> \o BFromInt(n \div LimbBase)

BLimb(a, i) == IF i <= Len(a) THEN a[i] ELSE 0

RECURSIVE BAddC(_, _, _, _)
BAddC(a, b, i, c) ==
    IF i > Len(a) /\ i > Len(b)
    THEN (IF c = 0 THEN <<>> ELSE <<c>>)
    ELSE LET x == BLimb(a, i) + BLimb(b, i) + c
         IN  <<x % LimbBase>> \o BAddC(a, b, i + 1, x \div LimbBase)

BAdd(a, b) == BAddC(a, b, 1, 0)

RECURSIVE BSubC(_, _, _, _)
BSubC(a, b, i, c) ==
    IF i > Len(a) THEN <<>>
    ELSE LET x == BLimb(a, i) - BLimb(b, i) - c
         IN  IF x < 0
             THEN <<x + LimbBase>> \o BSubC(a, b, i + 1, 1)
             ELSE <<x>> \o BSubC(a, b, i + 1, 0)

\* a - b, for a >= b
BSub(a, b) == BNorm(BSubC(a, b, 1, 0))

RECURSIVE BCmpFrom(_, _, _)
BCmpFrom(a, b, i) ==
    IF i = 0 THEN 0
    ELSE IF a[i] < b[i] THEN -1
    ELSE IF a[i] > b[i] THEN 1
    ELSE BCmpFrom(a, b, i - 1)

\* -1, 0, 1 as a < b, a = b, a > b
BCmp(a, b) ==
    IF Len(a) < Len(b) THEN -1
    ELSE IF Len(a) > Len(b) THEN 1
    ELSE BCmpFrom(a, b, Len(a))

RECURSIVE BMulSmallC(_, _, _, _)
BMulSmallC(a, k, i, c) ==
    IF i > Len(a)
    THEN (IF c = 0 THEN <<>> ELSE <<c>>)
    ELSE LET x == a[i] * k + c
         IN  <<x % LimbBase>> \o BMulSmallC(a, k, i + 1, x \div LimbBase)

\* a * k + c, for 0 <= k, c < LimbBase
BMulSmall(a, k, c) == BNorm(BMulSmallC(a, k, 1, c))

BShiftLimbs(a, n) == IF a = <<>> THEN <<>> ELSE [i \in 1..n |-> 0] \o a

RECURSIVE BMulFrom(_, _, _)
BMulFrom(a, b, i) ==
    IF i > Len(b) THEN <<>>
    ELSE BAdd(BMulSmall(a, b[i], 0), BShiftLimbs(BMulFrom(a, b, i + 1), 1))

BMul(a, b) == BMulFrom(a, b, 1)

\* a * 2^n
BShl(a, n) == BShiftLimbs(BMulSmall(a, 2^(n % LimbBits), 0), n \div LimbBits)

\* floor(a / 2^n)
BShr(a, n) ==
    LET d == n \div LimbBits
        r == n % LimbBits
        k == Len(a) - d
    IN  IF k <= 0 THEN <<>>
        ELSE BNorm([i \in 1..k |->
                 (a[i + d] \div 2^r)
                 + (BLimb(a, i + d + 1) % 2^r) * 2^(LimbBits - r)])

\* a mod 2^n = 0
BLowZero(a, n) ==
    LET d == n \div LimbBits
        r == n % LimbBits
    IN  /\ \A i \in 1..d : BLimb(a, i) = 0
        /\ BLimb(a, d + 1) % 2^r = 0

\* bit i of a (bit 0 is the least significant)
BBit(a, i) == (BLimb(a, (i \div LimbBits) + 1) \div 2^(i % LimbBits)) % 2

RECURSIVE SmallBitLen(_)
SmallBitLen(n) == IF n = 0 THEN 0 ELSE 1 + SmallBitLen(n \div 2)

BBitLen(a) ==
    IF a = <<>> THEN 0 ELSE LimbBits * (Len(a) - 1) + SmallBitLen(a[Len(a)])

\* One step of long division (Knuth's algorithm D) by a divisor b whose top
\* limb is at least LimbBase / 2: the quotient limb floor(rem / b), for
\* rem < b * LimbBase.  The estimate from the top limbs is at most 2 too big.
RECURSIVE BQuotLimb(_, _, _)
BQuotLimb(rem, b, qhat) ==
    IF BCmp(BMulSmall(b, qhat, 0), rem) <= 0 THEN qhat
    ELSE BQuotLimb(rem, b, qhat - 1)

BQuotEstimate(rem, b) ==
    (IF (BLimb(rem, Len(b) + 1) * LimbBase + BLimb(rem, Len(b))) \div b[Len(b)] >= LimbBase
     THEN LimbBase - 1
     ELSE (BLimb(rem, Len(b) + 1) * LimbBase + BLimb(rem, Len(b))) \div b[Len(b)])

\* Long division of a by b, limb i of a downward still to come; rem is the
\* remainder so far and q collects the quotient limbs.
RECURSIVE BDivLoop(_, _, _, _, _)
BDivTake(a, b, i, rem, q, d) ==
    BDivLoop(a, b, i - 1,
             IF d = 0 THEN rem ELSE BSub(rem, BMulSmall(b, d, 0)),
             <<d>> \o q)

BDivStep(a, b, i, rem, q) ==
    BDivTake(a, b, i, rem, q,
             IF BCmp(rem, b) < 0 THEN 0
             ELSE BQuotLimb(rem, b, BQuotEstimate(rem, b)))

BDivLoop(a, b, i, rem, q) ==
    IF i = 0 THEN [q |-> BNorm(q), exact |-> rem = <<>>]
    ELSE BDivStep(a, b, i, BNorm(<<a[i]>> \o rem), q)

BDivShifted(a, b) == BDivLoop(a, b, Len(a), <<>>, <<>>)

\* floor(a / b) and whether the division is exact, for b > 0
BDivMod(a, b) ==
    BDivShifted(BShl(a, LimbBits - SmallBitLen(b[Len(b)])),
                BShl(b, LimbBits - SmallBitLen(b[Len(b)])))

\* floor(sqrt(n)) for a small n below 2^(2 * (i + 1)): one result bit per step
RECURSIVE SmallSqrt(_, _, _)
SmallSqrt(n, i, r) ==
    IF i < 0 THEN r
    ELSE IF (r + 2^i) * (r + 2^i) <= n THEN SmallSqrt(n, i - 1, r + 2^i)
    ELSE SmallSqrt(n, i - 1, r)

\* floor(sqrt(a)) by Newton's iteration from a start x above the root:
\* x decreases to the root and stops there.
RECURSIVE BSqrtLoop(_, _)
BSqrtNext(a, x, y) == IF BCmp(y, x) >= 0 THEN x ELSE BSqrtLoop(a, y)

BSqrtLoop(a, x) == BSqrtNext(a, x, BShr(BAdd(x, BDivMod(a, x).q), 1))

\* the start: the root of the top limbs of a (the bits from k2 up), plus one
BSqrtStart(t, k2) ==
    BShl(BFromInt(SmallSqrt(BLimb(t, 1) + BLimb(t, 2) * LimbBase, LimbBits - 1, 0) + 1),
         k2 \div 2)

BSqrtFrom(a, k2) == BSqrtLoop(a, BSqrtStart(BShr(a, k2), k2))

\* floor(sqrt(a)) for a of at least 2 * LimbBits bits
BSqrt(a) ==
    BSqrtFrom(a, IF (BBitLen(a) - 2 * LimbBits) % 2 = 0
                 THEN BBitLen(a) - 2 * LimbBits
                 ELSE BBitLen(a) - 2 * LimbBits + 1)

(***************************************************************************)
(* binary64.  A value is NaN, a zero, an infinity, or                      *)
(*   (-1)^neg * m * 2^e   with  2^52 <= m < 2^53  (m in limbs).            *)
(* The sign of a zero is not kept (no result modelled here depends on it), *)
(* and exponents stay far from the overflow and subnormal ranges for the   *)
(* magnitudes of the model.                                                *)
(***************************************************************************)
Precision == 52 + 1

FNaN == [k |-> "nan"]
FZero == [k |-> "zero"]
FInf(neg) == [k |-> "inf", neg |-> neg]
FNum(neg, m, e) == [k |-> "num", neg |-> neg, m |-> m, e |-> e]

\* q of Precision bits, or of one more after a carry out of the rounding
FRenorm(neg, q, E) ==
    IF BBitLen(q) > Precision THEN FNum(neg, BShr(q, 1), E + 1) ELSE FNum(neg, q, E)

\* q: the leading Precision bits; half: the next bit; rest: whether anything
\* follows it
FRoundBits(neg, q, E, half, rest, mode) ==
    FRenorm(neg,
            IF CASE mode = "RN" -> half /\ (rest \/ BBit(q, 0) = 1)
                 [] mode = "RD" -> FALSE
                 [] OTHER       -> half \/ rest
            THEN BAdd(q, <<1>>) ELSE q,
            E)

FRoundLen(neg, M, E, sticky, mode, L) ==
    IF L <= Precision
    THEN FNum(neg, BShl(M, Precision - L), E - (Precision - L))
    ELSE FRoundBits(neg, BShr(M, L - Precision), E + (L - Precision),
                    BBit(M, L - Precision - 1) = 1,
                    sticky \/ ~BLowZero(M, L - Precision - 1), mode)

\* The binary64 for M * 2^E (M > 0 in limbs); sticky says that the exact
\* value lies strictly between M * 2^E and (M+1) * 2^E (M then has more than
\* Precision + 1 bits).  mode: "RN" to nearest, ties to even (the hardware's
\* rounding); "RD" and "RU" toward zero and away from zero.
FRound(neg, M, E, sticky, mode) == FRoundLen(neg, M, E, sticky, mode, BBitLen(M))

FFromInt(n) ==
    IF n = 0 THEN FZero
    ELSE FRound(n < 0, BFromInt(IF n < 0 THEN -n ELSE n), 0, FALSE, "RN")

FNeg(x) == IF x.k \in {"num", "inf"} THEN [x EXCEPT !.neg = ~x.neg] ELSE x

\* the sum of two finite non-zero values with their significands Mx, My
\* aligned at exponent e0
FAddAligned(xneg, yneg, Mx, My, e0, c) ==
    IF xneg # yneg /\ c = 0 THEN FZero
    ELSE FRound(IF xneg = yneg \/ c > 0 THEN xneg ELSE yneg,
                IF xneg = yneg THEN BAdd(Mx, My)
                ELSE IF c > 0 THEN BSub(Mx, My) ELSE BSub(My, Mx),
                e0, FALSE, "RN")

FAddAt(x, y, e0) ==
    FAddAligned(x.neg, y.neg, BShl(x.m, x.e - e0), BShl(y.m, y.e - e0), e0,
                IF x.e - BBitLen(y.m) > y.e - BBitLen(x.m) THEN 1
                ELSE IF x.e - BBitLen(y.m) < y.e - BBitLen(x.m) THEN -1
                ELSE BCmp(x.m, y.m))

\* x + y
FAdd(x, y) ==
    IF x.k = "nan" \/ y.k = "nan" THEN FNaN
    ELSE IF x.k = "inf" \/ y.k = "inf"
    THEN (IF x.k = "inf" /\ y.k = "inf" /\ x.neg # y.neg THEN FNaN
          ELSE IF x.k = "inf" THEN x ELSE y)
    ELSE IF x.k = "zero" THEN y
    ELSE IF y.k = "zero" THEN x
    ELSE FAddAt(x, y, IF x.e < y.e THEN x.e ELSE y.e)

\* x * y, rounded in the given mode
FMulMode(x, y, mode) ==
    IF x.k = "nan" \/ y.k = "nan" THEN FNaN
    ELSE IF x.k = "inf" \/ y.k = "inf"
    THEN (IF x.k = "zero" \/ y.k = "zero" THEN FNaN ELSE FInf(x.neg # y.neg))
    ELSE IF x.k = "zero" \/ y.k = "zero" THEN FZero
    ELSE FRound(x.neg # y.neg, BMul(x.m, y.m), x.e + y.e, FALSE, mode)

FMul(x, y) == FMulMode(x, y, "RN")

FDivQuot(neg, d, E) == FRound(neg, d.q, E, ~d.exact, "RN")

\* x / y
FDiv(x, y) ==
    IF x.k = "nan" \/ y.k = "nan" THEN FNaN
    ELSE IF x.k = "inf"
    THEN (IF y.k = "inf" THEN FNaN ELSE FInf(x.neg # (y.k = "num" /\ y.neg)))
    ELSE IF y.k = "inf" THEN FZero
    ELSE IF y.k = "zero" THEN (IF x.k = "zero" THEN FNaN ELSE FInf(x.neg))
    ELSE IF x.k = "zero" THEN FZero
    ELSE FDivQuot(x.neg # y.neg, BDivMod(BShl(x.m, Precision + 3), y.m),
                  x.e - y.e - (Precision + 3))

FSqrtRoot(A, r, E) == FRound(FALSE, r, E, BMul(r, r) # A, "RN")

FSqrtScaled(A, E) == FSqrtRoot(A, BSqrt(A), E)

FSqrtShift(x, s) == FSqrtScaled(BShl(x.m, s), (x.e - s) \div 2)

\* sqrt(x)
FSqrt(x) ==
    IF x.k = "nan" THEN FNaN
    ELSE IF x.k = "zero" THEN FZero
    ELSE IF x.neg THEN FNaN
    ELSE IF x.k = "inf" THEN x
    ELSE FSqrtShift(x, IF (x.e - (Precision + 5)) % 2 = 0 THEN Precision + 5
                       ELSE Precision + 6)

\* x < y for finite values
FMagLess(x, y) == x.e < y.e \/ (x.e = y.e /\ BCmp(x.m, y.m) < 0)

FSign(x) == IF x.k = "zero" THEN 0 ELSE IF x.neg THEN -1 ELSE 1

FLess(x, y) ==
    IF FSign(x) # FSign(y) THEN FSign(x) < FSign(y)
    ELSE IF FSign(x) = 0 THEN FALSE
    ELSE IF FSign(x) = 1 THEN FMagLess(x, y)
    ELSE FMagLess(y, x)

FOne == FFromInt(1)

(***************************************************************************)
(* Python values.  A JSON object is a record (a function on its keys), so  *)
(* a missing key is a key outside DOMAIN; a list is a sequence; a JSON     *)
(* number is an integer here (integers are exact in float64).  A call that *)
(* may raise returns Ok(value) or Raise(exception name).                   *)
(***************************************************************************)
Has(obj, key) == key \in DOMAIN obj
Ok(v) == [ok |-> TRUE, val |-> v]
Raise(e) == [ok |-> FALSE, err |-> e]
None == [none |-> TRUE]
IsNone(v) == "none" \in DOMAIN v

\* PySliceStep without the last, partial stride
PySliceWholeStrides(seq, k) ==
    [i \in 1..(Len(seq) \div k) |-> seq[(i - 1) * k + 1]]

\* seq[::k] for k >= 1: the elements at 0-based indices 0, k, 2k, ...
PySliceStep(seq, k) ==
    [i \in 1..((Len(seq) + k - 1) \div k) |-> seq[(i - 1) * k + 1]]

\* the least element of a non-empty set of integers
Least(S) == CHOOSE x \in S : \A y \in S : x <= y

(***************************************************************************)
(* Bounds of the input documents.                                          *)
(***************************************************************************)
MaxBirds == 2
MaxFrames == 2
MaxSampleFrames == 24
MaxOrderBirds == 2

(***************************************************************************)
(* Input documents (the export schema the scripts index into).             *)
(***************************************************************************)
Vec(x, y, z) == [x |-> x, y |-> y, z |-> z]
Bird(p, v) == [position |-> p, velocity |-> v]

Metadata ==
    [tag |-> "run", simulation_id |-> 1, ensemble_id |-> 1, total_steps |-> 10,
     duration_seconds |-> 1, created_at |-> "t0"]

Parameters(n) ==
    [num_birds |-> n, radius |-> 1, speed |-> 1, dt |-> 1,
     interaction_radius |-> 1, eta |-> 0, iterations |-> 10]

\* without key k
Without(obj, k) == [key \in DOMAIN obj \ {k} |-> obj[key]]

\* The bird at 1-based agent index a of 1-based frame f: positions differ in
\* every (a, f), every other bird is stationary.
BirdAt(a, f) ==
    Bird(Vec(a, f, a + 2 * f),
         IF (a + f) % 2 = 0 THEN Vec(0, 0, 0) ELSE Vec(a, 0 - f, 2))

\* A frame of the export at 1-based index f: <<"birds", n>> has n birds; the
\* others are malformed (a frame object without "birds" or without
\* "timestamp", a bird object without "velocity").
FrameKinds ==
    {<<"birds", n>> : n \in 0..MaxBirds}
    \cup {<<"nobirds", 1>>, <<"notime", 1>>, <<"badbird", 1>>}

FrameOf(kind, f) ==
    LET full(n) == [step |-> f - 1, timestamp |-> f - 1,
                    birds |-> [a \in 1..n |-> BirdAt(a, f)]]
    IN  CASE kind[1] = "nobirds" -> Without(full(1), "birds")
          [] kind[1] = "notime"  -> Without(full(1), "timestamp")
          [] kind[1] = "badbird" ->
                 [full(1) EXCEPT !.birds = <<Without(BirdAt(1, f), "velocity")>>]
          [] OTHER -> full(kind[2])

FramesOf(kinds) == [f \in 1..Len(kinds) |-> FrameOf(kinds[f], f)]

KindSeqs == UNION {[1..n -> FrameKinds] : n \in 0..MaxFrames}

Export(n, frames) ==
    [metadata |-> Metadata, parameters |-> Parameters(n), frames |-> frames]

\* exports with every top-level and second-level key present
Exports == {Export(n, FramesOf(ks)) : n \in 0..MaxBirds, ks \in KindSeqs}

BaseExport == Export(1, FramesOf(<< <<"birds", 1>> >>))

\* documents with a key missing, and the flat single-frame form
OtherDocuments ==
    { Without(BaseExport, "metadata"),
      Without(BaseExport, "parameters"),
      Without(BaseExport, "frames"),
      [BaseExport EXCEPT !.metadata = Without(Metadata, "ensemble_id")],
      [BaseExport EXCEPT !.metadata = Without(Metadata, "tag")],
      [BaseExport EXCEPT !.parameters = Without(Parameters(1), "eta")],
      [BaseExport EXCEPT !.parameters = Without(Parameters(1), "radius")],
      [params |-> Parameters(1), birds |-> <<BirdAt(1, 1)>>],
      [params |-> Parameters(0), birds |-> <<>>] }

IsFlatForm(doc) == Has(doc, "params") /\ Has(doc, "birds") /\ ~Has(doc, "frames")

\* what open() and json.load() find at the path
Files ==
    {[k |-> "missing"], [k |-> "invalid"]}
    \cup {[k |-> "json", doc |-> d] : d \in Exports \cup OtherDocuments}

(***************************************************************************)
(* extract_trajectories                                                    *)
(***************************************************************************)
\* The exception lines 75-80 raise for the bird at 0-based index i - 1, or
\* "none".  Line 75 evaluates bird['position']['x'] and then stores at
\* [bird_idx, frame_idx]; lines 78-80 read bird['velocity'].
BirdError(bird, i, num_birds) ==
    IF ~Has(bird, "position") THEN "KeyError"
    ELSE IF i > num_birds THEN "IndexError"
    ELSE IF ~Has(bird, "velocity") THEN "KeyError"
    ELSE "none"

\* The exception lines 71-80 raise for one frame, or "none": the first one
\* met in program order.
FrameError(frame, num_birds) ==
    IF ~Has(frame, "timestamp") \/ ~Has(frame, "step") \/ ~Has(frame, "birds")
    THEN "KeyError"
    ELSE LET bad == {i \in 1..Len(frame.birds) :
                        BirdError(frame.birds[i], i, num_birds) # "none"}
         IN  IF bad = {} THEN "none"
             ELSE BirdError(frame.birds[Least(bad)], Least(bad), num_birds)

\* Channel with the two indices of the store exchanged
ChannelByFrame(frames, num_birds, part, comp) ==
    [a \in 1..num_birds |->
        [f \in 1..Len(frames) |->
            IF a <= Len(frames) /\ f <= Len(frames[a].birds)
            THEN frames[a].birds[f][part][comp] ELSE 0]]

\* One channel array, np.zeros((num_birds, num_frames)) filled by lines 74-80:
\* row a, column f (both 1-based here) holds the component of bird a of
\* frame f, and stays 0 where the frame has no bird a.
Channel(frames, num_birds, part, comp) ==
    [a \in 1..num_birds |->
        [f \in 1..Len(frames) |->
            IF a <= Len(frames[f].birds) THEN frames[f].birds[a][part][comp] ELSE 0]]

extract_trajectories(data) ==
    IF ~Has(data, "parameters") THEN Raise("KeyError")
    ELSE IF ~Has(data.parameters, "num_birds") THEN Raise("KeyError")
    ELSE IF ~Has(data, "frames") THEN Raise("KeyError")
    ELSE LET num_birds == data.parameters.num_birds
             frames    == data.frames
             bad       == {f \in 1..Len(frames) : FrameError(frames[f], num_birds) # "none"}
         IN  IF bad # {} THEN Raise(FrameError(frames[Least(bad)], num_birds))
             ELSE Ok([x  |-> Channel(frames, num_birds, "position", "x"),
                      y  |-> Channel(frames, num_birds, "position", "y"),
                      z  |-> Channel(frames, num_birds, "position", "z"),
                      vx |-> Channel(frames, num_birds, "velocity", "x"),
                      vy |-> Channel(frames, num_birds, "velocity", "y"),
                      vz |-> Channel(frames, num_birds, "velocity", "z"),
                      times |-> [f \in 1..Len(frames) |-> frames[f].timestamp],
                      steps |-> [f \in 1..Len(frames) |-> frames[f].step]])


(***************************************************************************)
(* create_animated_visualization                                           *)
(***************************************************************************)
Stride == 5

\* lines 106-108 and 125-127: the three coordinate lists of a frame's birds
Positions(frame) ==
    [x |-> [i \in 1..Len(frame.birds) |-> frame.birds[i].position.x],
     y |-> [i \in 1..Len(frame.birds) |-> frame.birds[i].position.y],
     z |-> [i \in 1..Len(frame.birds) |-> frame.birds[i].position.z]]

PositionsError(frame) ==
    IF ~Has(frame, "birds") THEN "KeyError"
    ELSE IF \E i \in 1..Len(frame.birds) : ~Has(frame.birds[i], "position")
    THEN "KeyError"
    ELSE "none"

\* lines 123-138: one animation frame per sampled frame, named by its place
\* in the sample
SampledFrames(frames) ==
    LET sampled == PySliceStep(frames, Stride)
    IN  [i \in 1..Len(sampled) |->
            [name |-> i - 1, scatter |-> Positions(sampled[i])]]

\* The figure, without the sphere mesh and the layout constants (they are
\* drawing data that no later step reads).
create_animated_visualization(data, trajectories) ==
    IF ~Has(data, "parameters") THEN Raise("KeyError")
    ELSE IF ~Has(data.parameters, "radius") THEN Raise("KeyError")
    ELSE IF ~Has(data, "frames") THEN Raise("KeyError")
    ELSE IF Len(data.frames) = 0 THEN Raise("IndexError")
    ELSE IF \E f \in 1..Len(data.frames) : PositionsError(data.frames[f]) # "none"
    THEN Raise("KeyError")
    ELSE IF ~Has(data, "metadata") THEN Raise("KeyError")
    ELSE IF ~Has(data.metadata, "tag") \/ ~Has(data.metadata, "simulation_id")
    THEN Raise("KeyError")
    ELSE Ok([kind |-> "animation",
             radius |-> data.parameters.radius,
             birds |-> Positions(data.frames[1]),
             frames |-> SampledFrames(data.frames),
             title |-> <<data.metadata.tag, data.metadata.simulation_id>>])

(***************************************************************************)
(* create_trajectory_analysis                                              *)
(***************************************************************************)
MaxTraces == 10

\* column f of a channel array: the view array[:, f]
Column(channel, f) == [a \in 1..Len(channel) |-> channel[a][f]]

\* the float64 values of an array of stored numbers
AsFloats(v) == [i \in 1..Len(v) |-> FFromInt(v[i])]

\* np.sqrt(a**2 + b**2 + c**2) on arrays, elementwise
Norms(a, b, c) ==
    [i \in 1..Len(a) |->
        FSqrt(FAdd(FAdd(FMul(a[i], a[i]), FMul(b[i], b[i])), FMul(c[i], c[i])))]

\* np.add.reduce over fewer than 8 elements: from 0.0, left to right
RECURSIVE SumFrom(_, _, _)
SumFrom(v, i, acc) ==
    IF i > Len(v) THEN acc ELSE SumFrom(v, i + 1, FAdd(acc, v[i]))

\* np.mean: the sum divided by the count; 0.0 / 0 = NaN for an empty array
Mean(v) ==
    IF Len(v) = 0 THEN FDiv(FZero, FZero)
    ELSE FDiv(SumFrom(v, 1, FZero), FFromInt(Len(v)))

\* ReplaceZeroSpeeds with line 249 left out
KeepZeroSpeeds(speeds) == speeds

\* line 249, speeds[speeds == 0] = 1, on the array of speeds
ReplaceZeroSpeeds(speeds) ==
    [i \in 1..Len(speeds) |-> IF speeds[i].k = "zero" THEN FOne ELSE speeds[i]]

\* NormalizedVelocities with the replacement of line 249 made in the velocity
\* views as well
NormalizedVelocitiesInPlace(vx, vy, vz) ==
    [vx |-> [i \in 1..Len(vx) |->
                IF vx[i] = 0 /\ vy[i] = 0 /\ vz[i] = 0 THEN 1 ELSE vx[i]],
     vy |-> vy, vz |-> vz,
     speeds |-> ReplaceZeroSpeeds(Norms(AsFloats(vx), AsFloats(vy), AsFloats(vz))),
     vx_norm |-> [i \in 1..Len(vx) |->
                     FDiv(FFromInt(vx[i]),
                          ReplaceZeroSpeeds(Norms(AsFloats(vx), AsFloats(vy), AsFloats(vz)))[i])],
     vy_norm |-> [i \in 1..Len(vy) |->
                     FDiv(FFromInt(vy[i]),
                          ReplaceZeroSpeeds(Norms(AsFloats(vx), AsFloats(vy), AsFloats(vz)))[i])],
     vz_norm |-> [i \in 1..Len(vz) |->
                     FDiv(FFromInt(vz[i]),
                          ReplaceZeroSpeeds(Norms(AsFloats(vx), AsFloats(vy), AsFloats(vz)))[i])]]

\* lines 243-253, the locals of one pass of the loop.  vx, vy, vz are views
\* of the channel arrays: they are returned as the pass leaves them, and the
\* arrays hold what the views hold.
NormalizedVelocities(vx, vy, vz) ==
    LET speeds == ReplaceZeroSpeeds(Norms(AsFloats(vx), AsFloats(vy), AsFloats(vz)))
    IN  [vx |-> vx, vy |-> vy, vz |-> vz, speeds |-> speeds,
         vx_norm |-> [i \in 1..Len(vx) |-> FDiv(FFromInt(vx[i]), speeds[i])],
         vy_norm |-> [i \in 1..Len(vy) |-> FDiv(FFromInt(vy[i]), speeds[i])],
         vz_norm |-> [i \in 1..Len(vz) |-> FDiv(FFromInt(vz[i]), speeds[i])]]

\* avg ** 2 on a numpy scalar calls the C library's pow(avg, 2.0), which is
\* faithfully rounded (an error below one unit in the last place) and not
\* necessarily correctly rounded: either neighbour of the exact square.
Pow2Outcomes(x) == {FMulMode(x, x, "RD"), FMulMode(x, x, "RU")}

\* lines 256-260: the values order can take
OrderOutcomes(loc) ==
    LET avg_vx == Mean(loc.vx_norm)
        avg_vy == Mean(loc.vy_norm)
        avg_vz == Mean(loc.vz_norm)
    IN  {FSqrt(FAdd(FAdd(a, b), c)) :
            a \in Pow2Outcomes(avg_vx), b \in Pow2Outcomes(avg_vy),
            c \in Pow2Outcomes(avg_vz)}

\* the sequences that take their f-th element from sets[f]
RECURSIVE SeqsOver(_, _)
SeqsOver(sets, f) ==
    IF f > Len(sets) THEN {<<>>}
    ELSE {<<h>> \o t : h \in sets[f], t \in SeqsOver(sets, f + 1)}

\* lines 241-253 for every frame_idx in range(len(times))
LoopLocals(trajectories) ==
    [f \in 1..Len(trajectories.times) |->
        NormalizedVelocities(Column(trajectories.vx, f), Column(trajectories.vy, f),
                             Column(trajectories.vz, f))]

\* the lists order_parameter can be after the loop of lines 241-261
OrderParameterOutcomes(locals) ==
    SeqsOver([f \in 1..Len(locals) |-> OrderOutcomes(locals[f])], 1)

\* lines 275-276: per frame, the mean over the agents of the distance from
\* the origin
MeanDistance(trajectories) ==
    [f \in 1..Len(trajectories.times) |->
        Mean(Norms(AsFloats(Column(trajectories.x, f)),
                   AsFloats(Column(trajectories.y, f)),
                   AsFloats(Column(trajectories.z, f))))]

\* a channel array after the loop: what its views hold
ChannelAfter(channel, locals, name) ==
    [a \in 1..Len(channel) |-> [f \in 1..Len(locals) |-> locals[f][name][a]]]

\* trajectories after create_trajectory_analysis
TrajectoriesAfter(trajectories, locals) ==
    [trajectories EXCEPT !.vx = ChannelAfter(@, locals, "vx"),
                         !.vy = ChannelAfter(@, locals, "vy"),
                         !.vz = ChannelAfter(@, locals, "vz")]

AnalysisError(data) ==
    IF ~Has(data, "parameters") THEN "KeyError"
    ELSE IF ~Has(data.parameters, "num_birds") \/ ~Has(data.parameters, "radius")
    THEN "KeyError"
    ELSE IF ~Has(data, "metadata") THEN "KeyError"
    ELSE IF ~Has(data.metadata, "tag") \/ ~Has(data.metadata, "simulation_id")
    THEN "KeyError"
    ELSE "none"

Min(a, b) == IF a < b THEN a ELSE b

\* The figure, given the list order_parameter (one of OrderParameterOutcomes);
\* the velocity-magnitude band of lines 211-237 is drawing data computed from
\* the same arrays and is left out.
AnalysisFigure(data, trajectories, order_parameter) ==
    [kind |-> "analysis",
     traces |-> [i \in 1..Min(MaxTraces, data.parameters.num_birds) |->
                    <<trajectories.x[i], trajectories.y[i], trajectories.z[i]>>],
     times |-> trajectories.times,
     order_parameter |-> order_parameter,
     mean_distance |-> MeanDistance(trajectories),
     radius_line |-> [f \in 1..Len(trajectories.times) |-> data.parameters.radius],
     title |-> <<data.metadata.tag, data.metadata.simulation_id>>]

(***************************************************************************)
(* print_simulation_info                                                   *)
(***************************************************************************)
MetadataKeys ==
    {"tag", "simulation_id", "ensemble_id", "total_steps", "duration_seconds",
     "created_at"}

ParameterKeys ==
    {"num_birds", "radius", "speed", "dt", "interaction_radius", "eta", "iterations"}

print_simulation_info(data) ==
    IF ~Has(data, "metadata") \/ ~Has(data, "parameters") THEN Raise("KeyError")
    ELSE IF ~(MetadataKeys \subseteq DOMAIN data.metadata) THEN Raise("KeyError")
    ELSE IF ~(ParameterKeys \subseteq DOMAIN data.parameters) THEN Raise("KeyError")
    ELSE IF ~Has(data, "frames") THEN Raise("KeyError")
    ELSE Ok(Len(data.frames))

(***************************************************************************)
(* simple_example.py                                                       *)
(***************************************************************************)
MaxArrowBirds == 50

\* lines 160-163 of main
SimpleInfoError(data) ==
    IF ~Has(data, "metadata") THEN "KeyError"
    ELSE IF ~Has(data.metadata, "tag") \/ ~Has(data.metadata, "simulation_id")
    THEN "KeyError"
    ELSE IF ~Has(data, "parameters") THEN "KeyError"
    ELSE IF ~Has(data.parameters, "num_birds") THEN "KeyError"
    ELSE IF ~Has(data, "frames") THEN "KeyError"
    ELSE IF ~Has(data.parameters, "radius") THEN "KeyError"
    ELSE "none"

\* plot_frame(data, frame_index) for frame_index 0 or -1 (Python indexing)
plot_frame(data, frame_index) ==
    IF ~Has(data, "parameters") THEN Raise("KeyError")
    ELSE IF ~Has(data.parameters, "radius") THEN Raise("KeyError")
    ELSE IF ~Has(data, "frames") THEN Raise("KeyError")
    ELSE IF Len(data.frames) = 0 THEN Raise("IndexError")
    ELSE LET frame == IF frame_index >= 0 THEN data.frames[frame_index + 1]
                      ELSE data.frames[Len(data.frames) + frame_index + 1]
         IN  IF ~Has(frame, "birds") THEN Raise("KeyError")
             ELSE IF \E i \in 1..Len(frame.birds) :
                        ~Has(frame.birds[i], "position") \/ ~Has(frame.birds[i], "velocity")
             THEN Raise("KeyError")
             ELSE IF ~Has(frame, "timestamp") \/ ~Has(frame, "step")
             THEN Raise("KeyError")
             ELSE Ok([kind |-> "frame",
                      frame_index |-> frame_index,
                      birds |-> Positions(frame),
                      velocities |->
                          [i \in 1..Len(frame.birds) |-> frame.birds[i].velocity],
                      arrows |-> Len(frame.birds) <= MaxArrowBirds,
                      title |-> <<frame.timestamp, frame.step, Len(frame.birds),
                                  data.parameters.radius>>])

(***************************************************************************)
(* The two programs.  One run: the command line and the file are the       *)
(* inputs; pc is the statement of main() about to run.                     *)
(***************************************************************************)
VARIABLES
    entry,          \* "sphere": visualize_birds_sphere.py, "simple": simple_example.py
    args,           \* the command line, as argparse sees it
    file,           \* what is at the path given
    pc,
    data,           \* the loaded document, None before
    trajectories,   \* the result of extract_trajectories, None before
    emitted,        \* the figures shown so far (fig.show()), in order
    err,            \* the exception that ended the run, "none" if none
    exit_code       \* the process exit status, once pc = "exited"

vars == <<entry, args, file, pc, data, trajectories, emitted, err, exit_code>>

\* the exit status of an interpreter that ends on an uncaught exception
UncaughtExitCode == 1
\* argparse's exit status for a command line it rejects
UsageExitCode == 2

\* The command lines: one that argparse rejects (an unknown option, a second
\* positional), one with -h, and the accepted ones with their two flags.
CommandLines ==
    {[ok |-> FALSE, help |-> FALSE, analysis_only |-> FALSE, animation_only |-> FALSE],
     [ok |-> TRUE, help |-> TRUE, analysis_only |-> FALSE, animation_only |-> FALSE]}
    \cup [ok : {TRUE}, help : {FALSE}, analysis_only : BOOLEAN, animation_only : BOOLEAN]

NoFlags ==
    [ok |-> TRUE, help |-> FALSE, analysis_only |-> FALSE, animation_only |-> FALSE]

\* the command lines that get past parse_args
Accepted == {c \in CommandLines : c.ok /\ ~c.help}

Start(e, a, f) ==
    /\ entry = e
    /\ args = a
    /\ file = f
    /\ pc = IF e = "sphere" THEN "start" ELSE "s_load"
    /\ data = None
    /\ trajectories = None
    /\ emitted = <<>>
    /\ err = "none"
    /\ exit_code = 0

Init ==
    \E e \in {"sphere", "simple"}, a \in CommandLines, f \in Files :
        /\ e = "simple" => a = NoFlags
        /\ Start(e, a, f)

Exit(e, code) ==
    /\ pc' = "exited"
    /\ err' = e
    /\ exit_code' = code

\* load_simulation_data: the document, or the exit status of sys.exit
load_simulation_data(f) ==
    IF f.k = "missing" THEN [ok |-> FALSE, err |-> "FileNotFoundError", code |-> 1]
    ELSE IF f.k = "invalid" THEN [ok |-> FALSE, err |-> "JSONDecodeError", code |-> 1]
    ELSE Ok(f.doc)

\* line 349: parser.parse_args()
ParseArgs ==
    /\ pc = "start"
    /\ IF ~args.ok THEN Exit("ArgumentError", UsageExitCode)
       ELSE IF args.help THEN Exit("none", 0)
       ELSE pc' = "load" /\ UNCHANGED <<err, exit_code>>
    /\ UNCHANGED <<entry, args, file, data, trajectories, emitted>>

\* line 353
Load ==
    /\ pc = "load"
    /\ LET r == load_simulation_data(file)
       IN  IF r.ok
           THEN data' = r.val /\ pc' = "info" /\ UNCHANGED <<err, exit_code>>
           ELSE Exit(r.err, r.code) /\ UNCHANGED data
    /\ UNCHANGED <<entry, args, file, trajectories, emitted>>

\* line 356
PrintInfo ==
    /\ pc = "info"
    /\ LET r == print_simulation_info(data)
       IN  IF r.ok
           THEN pc' = "extract" /\ UNCHANGED <<err, exit_code>>
           ELSE Exit(r.err, UncaughtExitCode)
    /\ UNCHANGED <<entry, args, file, data, trajectories, emitted>>

\* line 360
Extract ==
    /\ pc = "extract"
    /\ LET r == extract_trajectories(data)
       IN  IF r.ok
           THEN trajectories' = r.val /\ pc' = "animate" /\ UNCHANGED <<err, exit_code>>
           ELSE Exit(r.err, UncaughtExitCode) /\ UNCHANGED trajectories
    /\ UNCHANGED <<entry, args, file, data, emitted>>

\* lines 363-366
Animate ==
    /\ pc = "animate"
    /\ IF args.analysis_only
       THEN pc' = "analyse" /\ UNCHANGED <<emitted, err, exit_code>>
       ELSE LET r == create_animated_visualization(data, trajectories)
            IN  IF r.ok
                THEN /\ emitted' = Append(emitted, r.val)
                     /\ pc' = "analyse"
                     /\ UNCHANGED <<err, exit_code>>
                ELSE Exit(r.err, UncaughtExitCode) /\ UNCHANGED emitted
    /\ UNCHANGED <<entry, args, file, data, trajectories>>

\* lines 368-371
Analyse ==
    /\ pc = "analyse"
    /\ IF args.animation_only
       THEN pc' = "finish" /\ UNCHANGED <<trajectories, emitted, err, exit_code>>
       ELSE IF AnalysisError(data) # "none"
       THEN Exit(AnalysisError(data), UncaughtExitCode)
            /\ UNCHANGED <<trajectories, emitted>>
       ELSE LET locals == LoopLocals(trajectories)
            IN  \E order_parameter \in OrderParameterOutcomes(locals) :
                    /\ emitted' = Append(emitted,
                           AnalysisFigure(data, trajectories, order_parameter))
                    /\ trajectories' = TrajectoriesAfter(trajectories, locals)
                    /\ pc' = "finish"
                    /\ UNCHANGED <<err, exit_code>>
    /\ UNCHANGED <<entry, args, file, data>>

\* line 373 and the return from main
Finish ==
    /\ pc = "finish"
    /\ Exit("none", 0)
    /\ UNCHANGED <<entry, args, file, data, trajectories, emitted>>

\* SimpleHandler with sys.exit(1) missing from the handler of line 181
SimpleHandlerNoExit(e) == IF e = "FileNotFoundError" THEN 1 ELSE 0

\* simple_example.main, lines 176-183: the exit status the handlers give
SimpleHandler(e) == IF e = "FileNotFoundError" THEN 1 ELSE 1

\* load_data, line 157
SimpleLoad ==
    /\ pc = "s_load"
    /\ IF file.k = "missing"
       THEN Exit("FileNotFoundError", SimpleHandler("FileNotFoundError")) /\ UNCHANGED data
       ELSE IF file.k = "invalid"
       THEN Exit("JSONDecodeError", SimpleHandler("JSONDecodeError")) /\ UNCHANGED data
       ELSE data' = file.doc /\ pc' = "s_info" /\ UNCHANGED <<err, exit_code>>
    /\ UNCHANGED <<entry, args, file, trajectories, emitted>>

\* lines 160-163
SimpleInfo ==
    /\ pc = "s_info"
    /\ IF SimpleInfoError(data) # "none"
       THEN Exit(SimpleInfoError(data), SimpleHandler(SimpleInfoError(data)))
       ELSE pc' = "s_first" /\ UNCHANGED <<err, exit_code>>
    /\ UNCHANGED <<entry, args, file, data, trajectories, emitted>>

\* lines 166-167
SimplePlotFirst ==
    /\ pc = "s_first"
    /\ LET r == plot_frame(data, 0)
       IN  IF r.ok
           THEN /\ emitted' = Append(emitted, r.val)
                /\ pc' = "s_last"
                /\ UNCHANGED <<err, exit_code>>
           ELSE Exit(r.err, SimpleHandler(r.err)) /\ UNCHANGED emitted
    /\ UNCHANGED <<entry, args, file, data, trajectories>>

\* lines 170-172
SimplePlotLast ==
    /\ pc = "s_last"
    /\ IF Len(data.frames) > 1
       THEN LET r == plot_frame(data, -1)
            IN  IF r.ok
                THEN /\ emitted' = Append(emitted, r.val)
                     /\ pc' = "s_finish"
                     /\ UNCHANGED <<err, exit_code>>
                ELSE Exit(r.err, SimpleHandler(r.err)) /\ UNCHANGED emitted
       ELSE pc' = "s_finish" /\ UNCHANGED <<emitted, err, exit_code>>
    /\ UNCHANGED <<entry, args, file, data, trajectories>>

\* line 174 and the return from main
SimpleFinish ==
    /\ pc = "s_finish"
    /\ Exit("none", 0)
    /\ UNCHANGED <<entry, args, file, data, trajectories, emitted>>

NextSphere ==
    \/ ParseArgs
    \/ Load
    \/ PrintInfo
    \/ Extract
    \/ Animate
    \/ Analyse
    \/ Finish

Next ==
    \/ NextSphere
    \/ SimpleLoad
    \/ SimpleInfo
    \/ SimplePlotFirst
    \/ SimplePlotLast
    \/ SimpleFinish

Spec == Init /\ [][Next]_vars

(***************************************************************************)
(* Runs of visualize_birds_sphere.py on longer exports of one bird, for    *)
(* the frame sampling of the animation (--animation-only, with or without  *)
(* --analysis-only: the animation does not read the analysis).             *)
(***************************************************************************)
SampleExport(n) == Export(1, FramesOf([f \in 1..n |-> <<"birds", 1>>]))

InitSampler ==
    \E n \in 0..MaxSampleFrames, a \in {c \in Accepted : c.animation_only} :
        Start("sphere", a, [k |-> "json", doc |-> SampleExport(n)])

SpecSampler == InitSampler /\ [][NextSphere]_vars

(***************************************************************************)
(* Runs of visualize_birds_sphere.py on one-frame exports whose birds have *)
(* the velocities below, for the order parameter.                          *)
(***************************************************************************)
OrderVelocities ==
    {Vec(0, 0, 0), Vec(1, 0, 0), Vec(-1, 0, 0), Vec(0, 2, 0), Vec(0, 0, -3),
     Vec(2, -1, 2), Vec(1, 13, 13), Vec(0, 19, 29)}

OrderExport(vs) ==
    Export(Len(vs),
           << [step |-> 0, timestamp |-> 0,
               birds |-> [a \in 1..Len(vs) |-> Bird(Vec(a, 0, 0), vs[a])]] >>)

InitOrder ==
    \E n \in 1..MaxOrderBirds, a \in Accepted :
        \E vs \in [1..n -> OrderVelocities] :
            Start("sphere", a, [k |-> "json", doc |-> OrderExport(vs)])

SpecOrder == InitOrder /\ [][NextSphere]_vars

(***************************************************************************)
(* Properties.                                                             *)
(***************************************************************************)
Channels == {"x", "y", "z", "vx", "vy", "vz"}

\* every key the scripts index is present and every frame has num_birds birds
WellFormedExport(doc) ==
    /\ {"metadata", "parameters", "frames"} \subseteq DOMAIN doc
    /\ Has(doc.parameters, "num_birds")
    /\ \A f \in 1..Len(doc.frames) :
          /\ {"timestamp", "step", "birds"} \subseteq DOMAIN doc.frames[f]
          /\ Len(doc.frames[f].birds) = doc.parameters.num_birds
          /\ \A a \in 1..Len(doc.frames[f].birds) :
                {"position", "velocity"} \subseteq DOMAIN doc.frames[f].birds[a]

\* some frame's birds list has a length other than num_birds
LengthMismatch(doc) ==
    /\ {"parameters", "frames"} \subseteq DOMAIN doc
    /\ Has(doc.parameters, "num_birds")
    /\ \E f \in 1..Len(doc.frames) :
          /\ Has(doc.frames[f], "birds")
          /\ Len(doc.frames[f].birds) # doc.parameters.num_birds

\* the bird list that column f of the channel arrays holds
Sliced(tr, f) ==
    [a \in 1..Len(tr.x) |->
        Bird(Vec(tr.x[a][f], tr.y[a][f], tr.z[a][f]),
             Vec(tr.vx[a][f], tr.vy[a][f], tr.vz[a][f]))]

\* the figures of a kind shown so far
Shown(kind) == {i \in 1..Len(emitted) : emitted[i].kind = kind}

\* C1: for a well-formed export, each of the six channel arrays that
\* extract_trajectories returns has num_birds rows of num_frames entries,
\* entry [a][f] is the component of frames[f].birds[a], and column f sliced
\* back is frame f's bird list in the same order.
C1_ChannelsMatchFrames ==
    (entry = "sphere" /\ ~IsNone(trajectories) /\ WellFormedExport(data)) =>
        LET n == data.parameters.num_birds
            F == Len(data.frames)
        IN  /\ \A c \in Channels :
                  /\ Len(trajectories[c]) = n
                  /\ \A a \in 1..n : Len(trajectories[c][a]) = F
            /\ \A a \in 1..n, f \in 1..F :
                  /\ trajectories.x[a][f] = data.frames[f].birds[a].position.x
                  /\ trajectories.y[a][f] = data.frames[f].birds[a].position.y
                  /\ trajectories.z[a][f] = data.frames[f].birds[a].position.z
                  /\ trajectories.vx[a][f] = data.frames[f].birds[a].velocity.x
                  /\ trajectories.vy[a][f] = data.frames[f].birds[a].velocity.y
                  /\ trajectories.vz[a][f] = data.frames[f].birds[a].velocity.z
            /\ \A f \in 1..F : Sliced(trajectories, f) = data.frames[f].birds
            /\ Len(trajectories.times) = F /\ Len(trajectories.steps) = F

\* trajectories extracted from a well-formed export of 2 birds and 2 frames
C1_Witness ==
    /\ entry = "sphere" /\ ~IsNone(trajectories) /\ WellFormedExport(data)
    /\ data.parameters.num_birds = 2 /\ Len(data.frames) = 2

\* C2 (as the specification states it): an export with a frame whose birds
\* list is not num_birds long is rejected with MalformedDataError before any
\* trajectories are built or any figure is shown.
C2_LengthMismatchRejected ==
    (entry = "sphere" /\ ~IsNone(data) /\ LengthMismatch(data)) =>
        /\ IsNone(trajectories)
        /\ emitted = <<>>
        /\ pc = "exited" => err = "MalformedDataError"

\* a run that built trajectories from such an export and ended with status 0
C2_Witness ==
    /\ entry = "sphere" /\ ~IsNone(data) /\ LengthMismatch(data)
    /\ ~IsNone(trajectories) /\ pc = "exited" /\ err = "none" /\ exit_code = 0

\* an export of zero agents with at least one (empty) frame
ZeroAgents(doc) ==
    /\ WellFormedExport(doc)
    /\ doc.parameters.num_birds = 0
    /\ Len(doc.frames) >= 1

\* C3 (as the specification states it): on a dataset of zero agents the
\* distance-from-centre and the order-parameter computations signal
\* EmptyDatasetError; no figure with a numeric or NaN result is produced.
C3_ZeroAgentsRejected ==
    (entry = "sphere" /\ ~IsNone(data) /\ ZeroAgents(data)) =>
        /\ Shown("analysis") = {}
        /\ (pc = "exited" /\ ~args.animation_only) => err = "EmptyDatasetError"

\* a run on zero agents that showed NaN for both statistics and ended with
\* status 0
C3_Witness ==
    /\ entry = "sphere" /\ ~IsNone(data) /\ ZeroAgents(data)
    /\ pc = "exited" /\ exit_code = 0
    /\ \E i \in Shown("analysis") :
          /\ emitted[i].order_parameter[1] = FNaN
          /\ emitted[i].mean_distance[1] = FNaN

\* the 0-based index in data.frames of the frame an animation frame shows
\* (the positions of the sampled exports differ from frame to frame)
OriginalIndex(scatter) ==
    CHOOSE m \in 0..(Len(data.frames) - 1) : Positions(data.frames[m + 1]) = scatter

SampledIndices(fig) ==
    [j \in 1..Len(fig.frames) |-> OriginalIndex(fig.frames[j].scatter)]

\* C4: the animation's frames are the frames at the original indices
\* 0, k, 2k, ... below n for the stride k the code fixes, in increasing
\* order, none repeated; frame 0 is always among them and the last frame
\* only when n - 1 is a multiple of k.  For n = 23 they are 0, 5, 10, 15, 20.
C4_SampledEveryStride ==
    \A i \in Shown("animation") :
        LET n   == Len(data.frames)
            idx == SampledIndices(emitted[i])
        IN  /\ \A j \in 1..Len(idx) :
                  emitted[i].frames[j].scatter = Positions(data.frames[idx[j] + 1])
            /\ {idx[j] : j \in 1..Len(idx)} = {m \in 0..(n - 1) : m % Stride = 0}
            /\ \A j \in 1..(Len(idx) - 1) : idx[j] < idx[j + 1]
            /\ idx[1] = 0
            /\ (idx[Len(idx)] = n - 1) <=> ((n - 1) % Stride = 0)
            /\ n = 23 => idx = <<0, 5, 10, 15, 20>>

\* the animation of a 23-frame export, with 5 frames
C4_Witness ==
    \E i \in Shown("animation") :
        Len(data.frames) = 23 /\ Len(emitted[i].frames) = 5

\* the velocities of the birds of frame f
Velocities(doc, f) ==
    [a \in 1..Len(doc.frames[f].birds) |-> doc.frames[f].birds[a].velocity]

\* C5 (as the specification states it): with at least one agent the order
\* parameter of every frame is in [0, 1]; it is 1 when all agents have the
\* same non-zero velocity and 0 for the pair (1,0,0), (-1,0,0).
C5_OrderInUnitInterval ==
    \A i \in Shown("analysis") :
        \A f \in 1..Len(emitted[i].order_parameter) :
            LET o  == emitted[i].order_parameter[f]
                vs == Velocities(data, f)
            IN  /\ o.k # "nan"
                /\ ~FLess(o, FZero)
                /\ ~FLess(FOne, o)
                /\ ((\A a \in 1..Len(vs) : vs[a] = vs[1]) /\ vs[1] # Vec(0, 0, 0))
                       => o = FOne
                /\ vs = <<Vec(1, 0, 0), Vec(-1, 0, 0)>> => o = FZero

\* an analysis that shows an order parameter above 1
C5_Witness ==
    \E i \in Shown("analysis") : FLess(FOne, emitted[i].order_parameter[1])

\* C6, amended: a run of visualize_birds_sphere.py whose command line the
\* argument parser rejects ends with status 2, and one asked for help with
\* status 0; every other run of either script ends with status 1 when the
\* file is missing, is not JSON, or any later stage raises, and with status
\* 0 otherwise.
C6_ExitCodeByOutcome ==
    pc = "exited" =>
        IF entry = "sphere" /\ ~args.ok THEN exit_code = 2
        ELSE IF entry = "sphere" /\ args.help THEN exit_code = 0
        ELSE /\ file.k \in {"missing", "invalid"} => exit_code = 1
             /\ err # "none" => exit_code = 1
             /\ (err = "none" /\ file.k = "json") => exit_code = 0
             /\ exit_code \in {0, 1}

\* a run ended by the argument parser
C6_Witness ==
    pc = "exited" /\ entry = "sphere" /\ ~args.ok /\ exit_code = 2 /\ IsNone(data)

\* C6 (as the specification states it): status 1 on any error, 0 otherwise
C6_ExitCodeOneOnAnyError ==
    pc = "exited" => exit_code = (IF err = "none" THEN 0 ELSE 1)

\* C7 (as the specification states it): a run that ends with an error has
\* shown no figure before.
C7_AllOrNothing ==
    (pc = "exited" /\ err # "none") => emitted = <<>>

\* simple_example.py showed the first frame and then failed on the last one
C7_Witness ==
    /\ entry = "simple" /\ pc = "exited" /\ err = "KeyError" /\ exit_code = 1
    /\ Len(emitted) = 1 /\ emitted[1].kind = "frame"

\* C8 (as the specification states it): a document of the flat form
\* {"params", "birds"} is processed as an export of one frame, not ended by a
\* missing-key error.
C8_FlatFormHandled ==
    (pc = "exited" /\ file.k = "json" /\ IsFlatForm(file.doc)
        /\ (entry = "simple" \/ args \in Accepted)) =>
        /\ err = "none"
        /\ entry = "simple" =>
              /\ Len(emitted) = 1
              /\ emitted[1].birds = Positions([birds |-> file.doc.birds])

\* a run on a flat document ended by KeyError with nothing shown
C8_Witness ==
    /\ pc = "exited" /\ file.k = "json" /\ IsFlatForm(file.doc)
    /\ err = "KeyError" /\ exit_code = 1 /\ emitted = <<>>

\* C9: the loaded export and the trajectories (six channels, times, steps)
\* stay what load and extract_trajectories returned, through the animation
\* and the analysis; the zero-speed replacement leaves the velocity channels
\* as they were.
C9_InputsNotMutated ==
    /\ ~IsNone(data) => data = file.doc
    /\ ~IsNone(trajectories) => trajectories = extract_trajectories(file.doc).val

\* both figures shown for an export with a stationary bird
C9_Witness ==
    /\ Shown("animation") # {} /\ Shown("analysis") # {}
    /\ \E a \in 1..Len(trajectories.vx), f \in 1..Len(trajectories.times) :
          trajectories.vx[a][f] = 0 /\ trajectories.vy[a][f] = 0
              /\ trajectories.vz[a][f] = 0

\* what the claim has an agent of velocity v contribute: the zero vector for
\* a stationary agent, v / |v| otherwise
Scaled(v, speed) ==
    Vec(FDiv(FFromInt(v.x), speed), FDiv(FFromInt(v.y), speed),
        FDiv(FFromInt(v.z), speed))

Contribution(v) ==
    IF v = Vec(0, 0, 0) THEN Vec(FZero, FZero, FZero)
    ELSE Scaled(v, Norms(AsFloats(<<v.x>>), AsFloats(<<v.y>>), AsFloats(<<v.z>>))[1])

\* the sum of one component of the contributions us divided by the number
\* of agents, stationary ones included
MeanContribution(us, comp) ==
    FDiv(SumFrom([a \in 1..Len(us) |-> us[a][comp]], 1, FZero), FFromInt(Len(us)))

\* C10: in every frame a stationary agent contributes the zero vector, a
\* moving one velocity / speed, and the mean divides by num_birds; a frame
\* of stationary agents only has order parameter 0, not a NaN.
C10_StationaryContributeZero ==
    \A i \in Shown("analysis") :
        \A f \in 1..Len(emitted[i].order_parameter) :
            LET o  == emitted[i].order_parameter[f]
                vs == Velocities(data, f)
                us == [a \in 1..Len(vs) |-> Contribution(vs[a])]
            IN  /\ o \in {FSqrt(FAdd(FAdd(p, q), r)) :
                            p \in Pow2Outcomes(MeanContribution(us, "x")),
                            q \in Pow2Outcomes(MeanContribution(us, "y")),
                            r \in Pow2Outcomes(MeanContribution(us, "z"))}
                /\ o.k # "nan"
                /\ (\A a \in 1..Len(vs) : vs[a] = Vec(0, 0, 0)) => o = FZero

\* one agent moving along x and one stationary: the order parameter is 1/2
C10_Witness ==
    \E i \in Shown("analysis") :
        /\ Velocities(data, 1) = <<Vec(1, 0, 0), Vec(0, 0, 0)>>
        /\ emitted[i].order_parameter[1] = FDiv(FOne, FFromInt(2))

=============================================================================
